---------------------------- MODULE Spec2Model ----------------------------
(***************************************************************************)
(* Model of veri-face (src/app.py): a Flask application that matches a     *)
(* reference face against candidate images from a Google-Drive folder or   *)
(* a local upload, publishing progress and returning matches as a ZIP.     *)
(*                                                                         *)
(* Strings whose characters matter (file names, drive links) are tuples of *)
(* one-character strings.  Face embeddings are points on a line and        *)
(* distances are in thousandths, so 0.6 is 600.  Image bytes are records   *)
(* that say what the decoders make of them.                                *)
(***************************************************************************)
EXTENDS Integers, Sequences, FiniteSets, TLC

(***************************************************************************)
(* Bounds of the model.                                                    *)
(***************************************************************************)
\* worker threads of the Flask server, each handling one request
NumThreads == 2
\* longest candidate list a request carries
MaxFiles == 2
\* longest candidate list in the interleaved specification
ConcMaxFiles == 1

Threads == 1 .. NumThreads

(***************************************************************************)
(* Program constants.                                                      *)
(***************************************************************************)
ALLOWED_EXTENSIONS ==
    { <<".", "p", "n", "g">>, <<".", "j", "p", "g">>,
      <<".", "j", "p", "e", "g">>, <<".", "h", "e", "i", "c">> }

MAX_FILE_SIZE == 10 * 1024 * 1024

\* the literal 0.6 of `any(d < 0.6 for d in distances)`, in thousandths
MATCH_THRESHOLD == 600

\* @retry(..., tries=2, delay=1) on load_image_any_format (backoff default 2)
LOAD_TRIES == 2
LOAD_DELAY == 1
\* @retry(..., tries=3, delay=1, backoff=2) on get_drive_service
AUTH_TRIES == 3
AUTH_DELAY == 1
\* @retry(..., tries=3, delay=2, backoff=2) on download_drive_images
LIST_TRIES == 3
LIST_DELAY == 2
BACKOFF == 2

\* Python's None for a path, a service object or a pixel array
None == [none |-> TRUE]

(***************************************************************************)
(* Characters and str.lower / str.endswith.                                *)
(***************************************************************************)
UPPER == << "A", "B", "C", "D", "E", "F", "G", "H", "I", "J", "K", "L", "M",
            "N", "O", "P", "Q", "R", "S", "T", "U", "V", "W", "X", "Y", "Z" >>
LOWER == << "a", "b", "c", "d", "e", "f", "g", "h", "i", "j", "k", "l", "m",
            "n", "o", "p", "q", "r", "s", "t", "u", "v", "w", "x", "y", "z" >>
DIGITS == { "0", "1", "2", "3", "4", "5", "6", "7", "8", "9" }

Range(s) == { s[i] : i \in DOMAIN s }

lower_char(c) ==
    IF \E k \in DOMAIN UPPER : UPPER[k] = c
    THEN LOWER[CHOOSE k \in DOMAIN UPPER : UPPER[k] = c]
    ELSE c

lower(s) == [ i \in DOMAIN s |-> lower_char(s[i]) ]

endswith(s, suffix) ==
    /\ Len(s) >= Len(suffix)
    /\ SubSeq(s, Len(s) - Len(suffix) + 1, Len(s)) = suffix

\* validate_file with the size test written >= instead of >
validate_file_at_limit(file) ==
    LET filename == lower(file.filename) IN
    IF ~ \E ext \in ALLOWED_EXTENSIONS : endswith(filename, ext)
    THEN <<FALSE, "Unsupported file type">>
    ELSE IF file.size >= MAX_FILE_SIZE
         THEN <<FALSE, "File exceeds size limit">>
         ELSE <<TRUE, "">>

(***************************************************************************)
(* validate_file: (ok, reason) for a file with a name and a size.          *)
(***************************************************************************)
validate_file(file) ==
    LET filename == lower(file.filename) IN
    IF ~ \E ext \in ALLOWED_EXTENSIONS : endswith(filename, ext)
    THEN <<FALSE, "Unsupported file type">>
    ELSE IF file.size > MAX_FILE_SIZE
         THEN <<FALSE, "File exceeds size limit">>
         ELSE <<TRUE, "">>

(***************************************************************************)
(* retry: the wrapper runs func until an attempt does not raise, at most   *)
(* `tries` times.  outs[k] is what the k-th call of func does:             *)
(* [raises |-> BOOLEAN, value |-> its return value].                       *)
(***************************************************************************)
RECURSIVE retry_loop(_, _, _, _, _, _)
retry_loop(_tries, _delay, backoff, outs, k, sleeps) ==
    IF _tries > 1
    THEN IF ~ outs[k].raises
         THEN [calls |-> k, raises |-> FALSE, value |-> outs[k].value,
               sleeps |-> sleeps]
         ELSE retry_loop(_tries - 1, _delay * backoff, backoff, outs, k + 1,
                         Append(sleeps, _delay))
    ELSE [calls |-> k, raises |-> outs[k].raises, value |-> outs[k].value,
          sleeps |-> sleeps]

\* the loop written `while _tries > 0`: one attempt more than tries
wrapper_retry_extra_attempt(tries, delay, backoff, outs) ==
    retry_loop(tries + 1, delay, backoff, outs, 1, <<>>)

wrapper_retry(tries, delay, backoff, outs) ==
    retry_loop(tries, delay, backoff, outs, 1, <<>>)

(***************************************************************************)
(* Image loading and face encoding.  Bytes are                             *)
(*   [id, decodable, faces, encerr]                                        *)
(* and a pixel array keeps what the encoder sees: [faces, encerr].         *)
(***************************************************************************)
\* the body of load_image_any_format: every exception becomes None
load_image_body(data) ==
    IF data = None \/ ~ data.decodable
    THEN [raises |-> FALSE, value |-> None]
    ELSE [raises |-> FALSE,
          value |-> [faces |-> data.faces, encerr |-> data.encerr]]

\* the decorated function: the retry wrapper around the body
load_image_any_format(data) ==
    wrapper_retry(LOAD_TRIES, LOAD_DELAY, BACKOFF,
                  [k \in 1 .. LOAD_TRIES |-> load_image_body(data)])

extract_face_encodings(img) ==
    IF img = None THEN <<>>
    ELSE IF img.encerr THEN <<>>
    ELSE img.faces

Abs(x) == IF x < 0 THEN -x ELSE x

\* face_recognition.face_distance: one distance per reference encoding
face_distance(ref_enc, test_enc) ==
    [ i \in DOMAIN ref_enc |-> Abs(ref_enc[i] - test_enc) ]

\* the threshold test written <= instead of <
any_below_or_equal(distances) ==
    \E i \in DOMAIN distances : distances[i] <= MATCH_THRESHOLD

any_below(distances) ==
    \E i \in DOMAIN distances : distances[i] < MATCH_THRESHOLD

\* the loop over encs: a match as soon as one encoding is close enough
found_match(ref_enc, encs) ==
    \E j \in DOMAIN encs : any_below(face_distance(ref_enc, encs[j]))

(***************************************************************************)
(* extract_folder_id: re.search(r'/folders/([a-zA-Z0-9_-]+)', link).       *)
(* The group has at least one character, so <<>> stands for None.          *)
(***************************************************************************)
FOLDERS == << "/", "f", "o", "l", "d", "e", "r", "s", "/" >>

IdChars == Range(UPPER) \cup Range(LOWER) \cup DIGITS \cup { "_", "-" }

MatchAt(link, i) ==
    /\ i + Len(FOLDERS) <= Len(link)
    /\ SubSeq(link, i, i + Len(FOLDERS) - 1) = FOLDERS
    /\ link[i + Len(FOLDERS)] \in IdChars

extract_folder_id(link) ==
    IF \E i \in DOMAIN link : MatchAt(link, i)
    THEN LET i == CHOOSE a \in DOMAIN link :
                     /\ MatchAt(link, a)
                     /\ \A b \in DOMAIN link : MatchAt(link, b) => a <= b
             first == i + Len(FOLDERS)
             last == CHOOSE e \in first .. Len(link) :
                        /\ \A p \in first .. e : link[p] \in IdChars
                        /\ e = Len(link) \/ link[e + 1] \notin IdChars
         IN SubSeq(link, first, last)
    ELSE <<>>

(***************************************************************************)
(* zipfile.ZipFile.writestr: one more entry under the name given.          *)
(***************************************************************************)
writestr(zipf, fname, img_data) ==
    Append(zipf, [name |-> fname, data |-> img_data])

RECURSIVE zip_matched(_, _)
zip_matched(zipf, matched) ==
    IF matched = <<>> THEN zipf
    ELSE zip_matched(writestr(zipf, Head(matched)[1], Head(matched)[2]),
                     Tail(matched))


(***************************************************************************)
(* Inputs.  A candidate is what the drive lists (an id and a name, with    *)
(* what fetching that id gives) or an uploaded file part (a filename, a    *)
(* size and its bytes).                                                    *)
(***************************************************************************)
Bytes(id, decodable, faces, encerr) ==
    [id |-> id, decodable |-> decodable, faces |-> faces, encerr |-> encerr]

Candidate(name, size, fetch, data) ==
    [name |-> name, size |-> size, fetch |-> fetch, data |-> data]

\* a.jpg: one face at distance 0.3 of the reference face at 0
cand_near == Candidate(<<"a", ".", "j", "p", "g">>, 1000, TRUE,
                       Bytes(1, TRUE, <<300>>, FALSE))
\* b.JPG: exactly 10 MiB, one face at distance exactly 0.6
cand_edge == Candidate(<<"b", ".", "J", "P", "G">>, MAX_FILE_SIZE, TRUE,
                       Bytes(2, TRUE, <<600>>, FALSE))
\* s/a.jpg: two faces, the second at distance 0.599
cand_sub == Candidate(<<"s", "/", "a", ".", "j", "p", "g">>, 1000, TRUE,
                      Bytes(3, TRUE, <<800, 599>>, FALSE))
\* c.txt: not an allowed extension, though its bytes hold a near face
cand_txt == Candidate(<<"c", ".", "t", "x", "t">>, 1000, TRUE,
                      Bytes(4, TRUE, <<100>>, FALSE))
\* d.png: one byte over 10 MiB
cand_big == Candidate(<<"d", ".", "p", "n", "g">>, MAX_FILE_SIZE + 1, TRUE,
                      Bytes(5, TRUE, <<100>>, FALSE))
\* e.heic: bytes that do not decode
cand_corrupt == Candidate(<<"e", ".", "h", "e", "i", "c">>, 1000, TRUE,
                          Bytes(6, FALSE, <<>>, FALSE))
\* f.jpeg: the face encoder raises on it
cand_encerr == Candidate(<<"f", ".", "j", "p", "e", "g">>, 1000, TRUE,
                         Bytes(7, TRUE, <<100>>, TRUE))
\* g.jpg: the download raises
cand_nofetch == Candidate(<<"g", ".", "j", "p", "g">>, 1000, FALSE,
                          Bytes(8, TRUE, <<100>>, FALSE))
\* h.png: an image without a face
cand_noface == Candidate(<<"h", ".", "p", "n", "g">>, 1000, TRUE,
                         Bytes(9, TRUE, <<>>, FALSE))

Candidates == { cand_near, cand_edge, cand_sub, cand_txt, cand_big,
                cand_corrupt, cand_encerr, cand_nofetch, cand_noface }

\* longest retry budget given to the wrapper when it is run on its own
MaxTries == 3

ConcCandidates == { cand_near, cand_big }

Lists(S, n) == UNION { [1 .. k -> S] : k \in 0 .. n }

\* reference images: how they arrive and what their bytes hold
Reference(via, filename, size, b64ok, data) ==
    [via |-> via, filename |-> filename, size |-> size, b64ok |-> b64ok,
     data |-> data]

ref_jpg == <<"r", ".", "j", "p", "g">>
ref_gif == <<"r", ".", "g", "i", "f">>

ref_one == Reference("file", ref_jpg, 1000, TRUE,
                     Bytes(101, TRUE, <<0>>, FALSE))
ref_two == Reference("file", ref_jpg, 1000, TRUE,
                     Bytes(102, TRUE, <<0, 1000>>, FALSE))
ref_noface == Reference("file", ref_jpg, 1000, TRUE,
                        Bytes(103, TRUE, <<>>, FALSE))
ref_corrupt == Reference("file", ref_jpg, 1000, TRUE,
                         Bytes(104, FALSE, <<>>, FALSE))
ref_badtype == Reference("file", ref_gif, 1000, TRUE,
                         Bytes(105, TRUE, <<0>>, FALSE))
ref_toobig == Reference("file", ref_jpg, MAX_FILE_SIZE + 1, TRUE,
                        Bytes(106, TRUE, <<0>>, FALSE))
ref_webcam == Reference("webcam", <<>>, 0, TRUE,
                        Bytes(101, TRUE, <<0>>, FALSE))
ref_badcam == Reference("webcam", <<>>, 0, FALSE,
                        Bytes(108, FALSE, <<>>, FALSE))
ref_absent == Reference("none", <<>>, 0, TRUE,
                        Bytes(109, FALSE, <<>>, FALSE))
\* a webcam or API image that decodes and shows no face
ref_blankcam == Reference("webcam", <<>>, 0, TRUE,
                          Bytes(103, TRUE, <<>>, FALSE))

References == { ref_one, ref_two, ref_noface, ref_corrupt, ref_badtype,
                ref_toobig, ref_webcam, ref_badcam, ref_absent, ref_blankcam }

ConcReferences == { ref_one, ref_absent }

\* drive links: ".../folders/a-1?u", ".../folder/a1", ".../folders/"
link_good == << "d", "/", "f", "o", "l", "d", "e", "r", "s", "/",
                "a", "-", "1", "?", "u" >>
link_nopattern == << "d", "/", "f", "o", "l", "d", "e", "r", "/", "a", "1" >>
link_noid == << "d", "/", "f", "o", "l", "d", "e", "r", "s", "/" >>

Links == { link_good, link_nopattern, link_noid }

Forms(cands, n, refs) ==
    [ source_select : { "drive", "local", "other" },
      drive_link : Links,
      local_files : Lists(cands, n),
      ref : refs ]

\* JSON bodies of the API route
Bodies(refs) ==
    [ has_fields : BOOLEAN,
      drive_link : Links,
      ref : { x \in refs : x.via = "webcam" } ]

(***************************************************************************)
(* State.                                                                  *)
(***************************************************************************)
VARIABLES
    progress_data,  \* the module-level dict {"current", "total"}
    firebase,       \* the record at face_match_progress in the remote store
    uploads,        \* files in UPLOAD_FOLDER: [path, data]
    folder,         \* whether the directory UPLOAD_FOLDER exists
    uuids,          \* uuid4 values handed out so far
    pc,             \* per thread: where its request handler stands
    route,          \* per thread: the route and method of its request
    filepath,       \* per thread: filepath / ref_path
    folder_id,      \* per thread: folder_id
    variant,        \* per thread: "drive" (compare_faces) or "local"
    files,          \* per thread: drive_files / local_files
    ref_enc,        \* per thread: ref_enc
    service,        \* per thread: service
    idx,            \* per thread: idx / i of the loop
    matched,        \* per thread: matched
    unmatched,      \* per thread: unmatched
    response,       \* per thread: what the handler returned
    pubs,           \* per thread: calls of update_firebase_progress it made
    calls,          \* per thread: calls of the loader and the encoder it made
    rm_entries,     \* per thread: what rmtree listed and has yet to unlink
    args            \* per thread: the arguments of its ref.set under way

shared == << progress_data, firebase, uploads, folder, uuids >>
form == << route, filepath, folder_id, variant, files >>
pass == << ref_enc, service, idx, matched, unmatched >>
logs == << pubs, calls >>
inflight == << rm_entries, args >>
vars == << shared, pc, form, pass, response, logs, inflight >>

Path(n) == [uuid |-> n]
Service == [drive |-> "v3"]

NoResponse == [kind |-> "none", status |-> 0, error |-> "", body |-> <<>>]
Template(error) ==
    [kind |-> "template", status |-> 200, error |-> error, body |-> <<>>]
Json(status, error) ==
    [kind |-> "json", status |-> status, error |-> error, body |-> <<>>]
\* an exception that leaves the handler: internal_error (lines 96-98), or,
\* under app.run(debug=True) (line 348), the debugger's page
Unhandled ==
    { [kind |-> "json", status |-> 500, error |-> "Internal Server Error",
       body |-> <<>>],
      [kind |-> "debugger", status |-> 500,
       error |-> "Internal Server Error", body |-> <<>>] }
Archive(entries) ==
    [kind |-> "archive", status |-> 200, error |-> "", body |-> entries]

Init ==
    /\ progress_data = [current |-> 0, total |-> 0]
    /\ firebase = None
    /\ uploads = {}
    /\ folder = TRUE
    /\ uuids = 0
    /\ pc = [r \in Threads |-> "idle"]
    /\ route = [r \in Threads |-> "none"]
    /\ filepath = [r \in Threads |-> None]
    /\ folder_id = [r \in Threads |-> <<>>]
    /\ variant = [r \in Threads |-> "none"]
    /\ files = [r \in Threads |-> <<>>]
    /\ ref_enc = [r \in Threads |-> <<>>]
    /\ service = [r \in Threads |-> None]
    /\ idx = [r \in Threads |-> 0]
    /\ matched = [r \in Threads |-> <<>>]
    /\ unmatched = [r \in Threads |-> <<>>]
    /\ response = [r \in Threads |-> NoResponse]
    /\ pubs = [r \in Threads |-> <<>>]
    /\ calls = [r \in Threads |-> <<>>]
    /\ rm_entries = [r \in Threads |-> {}]
    /\ args = [r \in Threads |-> None]


(***************************************************************************)
(* Helpers of the actions.                                                 *)
(***************************************************************************)
\* update_firebase_progress up to its ref.set: the call has its arguments
\* and waits on the network; the store changes when the write arrives
update_firebase_progress(r, current, total) ==
    /\ args' = [args EXCEPT ![r] = [current |-> current, total |-> total]]
    /\ pubs' = [pubs EXCEPT ![r] =
                   Append(@, [current |-> current, total |-> total])]

\* ref.set arrives at the store, or raises: the error is logged only
ref_set(r) ==
    /\ \E ok \in BOOLEAN : firebase' = IF ok THEN args[r] ELSE firebase
    /\ args' = [args EXCEPT ![r] = None]

\* get_drive_service under its retry wrapper; auth[k] says whether the
\* k-th attempt to read the token and build the client succeeds
get_drive_service(auth) ==
    wrapper_retry(AUTH_TRIES, AUTH_DELAY, BACKOFF,
                  [k \in 1 .. AUTH_TRIES |->
                      [raises |-> ~ auth[k],
                       value |-> IF auth[k] THEN Service ELSE None]])

\* download_drive_images under its retry wrapper: its body turns every
\* exception (authentication, listing) into an empty list
download_drive_images(auth, listed, listing) ==
    wrapper_retry(LIST_TRIES, LIST_DELAY, BACKOFF,
                  [k \in 1 .. LIST_TRIES |->
                      [raises |-> FALSE,
                       value |-> IF get_drive_service(auth).raises \/ ~ listed
                                 THEN <<>> ELSE listing]])

\* an entry of the log of calls: the function, the item it was called for
\* (0 is the reference image), the attempts made and whether it raised
Call(fn, item, attempts, raises) ==
    [fn |-> fn, item |-> item, attempts |-> attempts, raises |-> raises]

\* what open()/Image.open find at a path of UPLOAD_FOLDER
read_file(path) ==
    IF \E f \in uploads : f.path = path
    THEN (CHOOSE f \in uploads : f.path = path).data
    ELSE None

\* a handler returns: its response is set and the thread is done
Respond(r, resp) ==
    /\ response' = [response EXCEPT ![r] = resp]
    /\ pc' = [pc EXCEPT ![r] = "done"]

\* after item idx of the loop: the next item, or return to the caller
AfterItem(r) ==
    IF idx[r] + 1 < Len(files[r]) THEN "item" ELSE "package"

(***************************************************************************)
(* A request arrives on an idle thread.                                    *)
(***************************************************************************)
Routes == { "index_get", "index_post", "api", "progress" }

Start(r) ==
    /\ pc[r] = "idle"
    /\ \E rt \in Routes :
        /\ route' = [route EXCEPT ![r] = rt]
        /\ pc' = [pc EXCEPT ![r] =
                     CASE rt \in { "index_get", "index_post" } -> "index_reset"
                       [] rt = "api" -> "api_save"
                       [] OTHER -> "progress"]
    /\ UNCHANGED << inflight, progress_data, firebase, uploads, folder, uuids,
                    filepath, folder_id, variant, files, pass, response,
                    logs >>

\* a request that meets no other request
StartAlone(r) ==
    /\ \A q \in Threads : pc[q] = "idle"
    /\ Start(r)

(***************************************************************************)
(* index, lines 243-247: reset and publish the progress record.            *)
(***************************************************************************)
IndexReset(r) ==
    /\ pc[r] = "index_reset"
    /\ progress_data' = [current |-> 0, total |-> 0]
    /\ pc' = [pc EXCEPT ![r] = "index_publish"]
    /\ UNCHANGED << inflight, firebase, uploads, folder, uuids, form, pass,
                    response, logs >>

IndexPublish(r) ==
    /\ pc[r] = "index_publish"
    /\ update_firebase_progress(r, 0, 0)
    /\ pc' = [pc EXCEPT ![r] = "index_publish_set"]
    /\ UNCHANGED << shared, form, pass, response, calls, rm_entries >>

\* line 247 (ref.set, line 104) arrives; a GET then renders the page, line 304
IndexPublishSet(r) ==
    /\ pc[r] = "index_publish_set"
    /\ ref_set(r)
    /\ IF route[r] = "index_post"
       THEN /\ pc' = [pc EXCEPT ![r] = "rmtree"]
            /\ UNCHANGED response
       ELSE Respond(r, Template(""))
    /\ UNCHANGED << progress_data, uploads, folder, uuids, form,
                    pass, logs, rm_entries >>

(***************************************************************************)
(* index, lines 250-251: empty the upload folder.  shutil.rmtree is not    *)
(* one step: it lists the folder (os.scandir), unlinks each entry it       *)
(* listed, then removes the folder, and another thread may run between     *)
(* two of these system calls.                                              *)
(***************************************************************************)
Rmtree(r) ==
    /\ pc[r] = "rmtree"
    /\ rm_entries' = [rm_entries EXCEPT ![r] =
                         IF folder THEN uploads ELSE {}]
    /\ pc' = [pc EXCEPT ![r] = IF folder THEN "rmtree_entries"
                                ELSE "makedirs"]
    /\ UNCHANGED << shared, form, pass, response, logs, args >>

\* rmtree's loop over the entries it listed: os.unlink of one of them (an
\* entry that is gone already is an ignored error), or the end of the loop
RmtreeUnlink(r) ==
    /\ pc[r] = "rmtree_entries"
    /\ IF rm_entries[r] = {}
       THEN /\ pc' = [pc EXCEPT ![r] = "rmtree_rmdir"]
            /\ UNCHANGED << uploads, rm_entries >>
       ELSE \E f \in rm_entries[r] :
               /\ uploads' = uploads \ { f }
               /\ rm_entries' = [rm_entries EXCEPT ![r] = @ \ { f }]
               /\ UNCHANGED pc
    /\ UNCHANGED << progress_data, firebase, folder, uuids, form, pass,
                    response, logs, args >>

\* rmtree's os.rmdir: it removes an empty folder only; ENOTEMPTY and ENOENT
\* are ignored (ignore_errors=True)
RmtreeRmdir(r) ==
    /\ pc[r] = "rmtree_rmdir"
    /\ folder' = IF uploads = {} THEN FALSE ELSE folder
    /\ pc' = [pc EXCEPT ![r] = "makedirs"]
    /\ UNCHANGED << progress_data, firebase, uploads, uuids, form, pass,
                    response, logs, inflight >>

\* line 251, os.makedirs(UPLOAD_FOLDER, exist_ok=True): its os.mkdir makes
\* the folder, or finds it there (FileExistsError, caught inside makedirs)
Makedirs(r) ==
    /\ pc[r] = "makedirs"
    /\ folder' = TRUE
    /\ pc' = [pc EXCEPT ![r] = IF folder THEN "makedirs_isdir" ELSE "form"]
    /\ UNCHANGED << inflight, progress_data, firebase, uploads, uuids, form,
                    pass, response, logs >>

\* line 251, after os.mkdir found the folder: os.path.isdir looks again, and
\* when the folder is gone by now makedirs re-raises FileExistsError, which
\* nothing in index() catches
MakedirsIsdir(r) ==
    /\ pc[r] = "makedirs_isdir"
    /\ IF folder
       THEN /\ pc' = [pc EXCEPT ![r] = "form"]
            /\ UNCHANGED response
       ELSE \E resp \in Unhandled : Respond(r, resp)
    /\ UNCHANGED << inflight, shared, form, pass, logs >>

(***************************************************************************)
(* index, lines 253-281 and 283, 304: read the form, validate and store    *)
(* the reference image.                                                    *)
(***************************************************************************)
IndexForm(r, forms) ==
    /\ pc[r] = "form"
    /\ \E f \in forms :
        LET fid == IF f.source_select = "drive"
                   THEN extract_folder_id(f.drive_link) ELSE <<>>
            local_files == IF f.source_select = "local"
                           THEN f.local_files ELSE <<>>
            valid == validate_file([filename |-> f.ref.filename,
                                    size |-> f.ref.size])
            path == Path(uuids + 1)
            stored == /\ uuids' = uuids + 1
                      /\ uploads' = uploads \cup
                                    { [path |-> path, data |-> f.ref.data] }
                      /\ filepath' = [filepath EXCEPT ![r] = path]
                      /\ pc' = [pc EXCEPT ![r] = "dispatch"]
                      /\ UNCHANGED response
            answer(error) == /\ Respond(r, Template(error))
                             /\ UNCHANGED << uploads, filepath >>
        IN  /\ folder_id' = [folder_id EXCEPT ![r] = fid]
            /\ files' = [files EXCEPT ![r] = local_files]
            /\ CASE f.ref.via = "file" ->
                      IF ~ valid[1]
                      THEN answer(valid[2]) /\ UNCHANGED uuids
                      ELSE IF folder THEN stored
                           ELSE answer("Failed to save uploaded file.")
                                /\ uuids' = uuids + 1
                 [] f.ref.via = "webcam" ->
                      IF ~ f.ref.b64ok
                      THEN answer("Webcam image decode failed.")
                           /\ UNCHANGED uuids
                      ELSE IF folder THEN stored
                           ELSE answer("Webcam image decode failed.")
                                /\ uuids' = uuids + 1
                 [] OTHER ->
                      answer("") /\ UNCHANGED uuids
    /\ UNCHANGED << inflight, progress_data, firebase, folder, route, variant,
                    pass, logs >>

(***************************************************************************)
(* index, lines 283-291: choose the source and list the candidates.        *)
(***************************************************************************)
IndexDispatch(r, cands, n) ==
    /\ pc[r] = "dispatch"
    /\ IF folder_id[r] # <<>>
       THEN \E auth \in [1 .. AUTH_TRIES -> BOOLEAN], listed \in BOOLEAN,
               listing \in Lists(cands, n) :
                /\ files' = [files EXCEPT ![r] =
                       download_drive_images(auth, listed, listing).value]
                /\ variant' = [variant EXCEPT ![r] = "drive"]
                /\ pc' = [pc EXCEPT ![r] = "load_ref"]
                /\ UNCHANGED response
       ELSE IF files[r] # <<>>
            THEN /\ variant' = [variant EXCEPT ![r] = "local"]
                 /\ pc' = [pc EXCEPT ![r] = "load_ref"]
                 /\ UNCHANGED << files, response >>
            ELSE /\ Respond(r,
                      Template("No local folder or drive link specified."))
                 /\ UNCHANGED << files, variant >>
    /\ UNCHANGED << inflight, shared, route, filepath, folder_id, pass, logs >>

(***************************************************************************)
(* api_match_drive_base64, lines 310-331: decode and store the reference   *)
(* image, then read the folder id.                                         *)
(***************************************************************************)
ApiSave(r, bodies) ==
    /\ pc[r] = "api_save"
    /\ \E b \in bodies :
        LET path == Path(uuids + 1)
            fid == extract_folder_id(b.drive_link)
        IN  IF ~ b.has_fields
            THEN /\ Respond(r, Json(400,
                        "Missing reference_image_base64 or drive_link"))
                 /\ UNCHANGED << uploads, uuids, filepath, folder_id >>
            ELSE IF ~ b.ref.b64ok
            THEN /\ Respond(r, Json(400, "Base64 decode failed"))
                 /\ UNCHANGED << uploads, uuids, filepath, folder_id >>
            ELSE IF ~ folder
            THEN /\ Respond(r, Json(500, "Failed saving reference image"))
                 /\ uuids' = uuids + 1
                 /\ filepath' = [filepath EXCEPT ![r] = path]
                 /\ UNCHANGED << uploads, folder_id >>
            ELSE /\ uuids' = uuids + 1
                 /\ uploads' = uploads \cup
                               { [path |-> path, data |-> b.ref.data] }
                 /\ filepath' = [filepath EXCEPT ![r] = path]
                 /\ folder_id' = [folder_id EXCEPT ![r] = fid]
                 /\ IF fid = <<>>
                    THEN Respond(r, Json(400,
                             "Invalid Google Drive folder link"))
                    ELSE /\ pc' = [pc EXCEPT ![r] = "api_list"]
                         /\ UNCHANGED response
    /\ UNCHANGED << inflight, progress_data, firebase, folder, route, variant,
                    files, pass, logs >>

\* line 333: drive_files = download_drive_images(folder_id)
ApiList(r, cands, n) ==
    /\ pc[r] = "api_list"
    /\ \E auth \in [1 .. AUTH_TRIES -> BOOLEAN], listed \in BOOLEAN,
          listing \in Lists(cands, n) :
            files' = [files EXCEPT ![r] =
                         download_drive_images(auth, listed, listing).value]
    /\ variant' = [variant EXCEPT ![r] = "drive"]
    /\ pc' = [pc EXCEPT ![r] = "load_ref"]
    /\ UNCHANGED << inflight, shared, route, filepath, folder_id, pass,
                    response, logs >>


(***************************************************************************)
(* compare_faces / compare_faces_local.                                    *)
(***************************************************************************)
\* lines 154-159 / 200-205: encode the reference image
LoadRef(r) ==
    /\ pc[r] = "load_ref"
    /\ LET loaded == load_image_any_format(read_file(filepath[r]))
           enc == extract_face_encodings(loaded.value)
       IN  /\ ref_enc' = [ref_enc EXCEPT ![r] = enc]
           /\ calls' = [calls EXCEPT ![r] =
                  @ \o << Call("load", 0, loaded.calls, loaded.raises),
                          Call("encode", 0, 1, FALSE) >>]
           /\ pc' = [pc EXCEPT ![r] =
                        IF enc = <<>> THEN "package"
                        ELSE IF variant[r] = "drive" THEN "auth"
                        ELSE "set_progress"]
    /\ matched' = [matched EXCEPT ![r] = <<>>]
    /\ unmatched' = [unmatched EXCEPT ![r] = <<>>]
    /\ UNCHANGED << inflight, shared, form, service, idx, response, pubs >>

\* Auth returning (matched, unmatched) as they are when the drive is down
Auth_returns_lists(r) ==
    /\ pc[r] = "auth"
    /\ \E auth \in [1 .. AUTH_TRIES -> BOOLEAN] :
        LET got == get_drive_service(auth) IN
        /\ calls' = [calls EXCEPT ![r] =
               Append(@, Call("auth", 0, got.calls, got.raises))]
        /\ IF got.raises
           THEN /\ pc' = [pc EXCEPT ![r] = "package"]
                /\ UNCHANGED << service, unmatched >>
           ELSE /\ service' = [service EXCEPT ![r] = got.value]
                /\ pc' = [pc EXCEPT ![r] = "set_progress"]
                /\ UNCHANGED unmatched
    /\ UNCHANGED << inflight, shared, form, ref_enc, idx, matched,
                    response, pubs >>

\* lines 161-164: authenticate; on failure every file is returned unmatched
Auth(r) ==
    /\ pc[r] = "auth"
    /\ \E auth \in [1 .. AUTH_TRIES -> BOOLEAN] :
        LET got == get_drive_service(auth) IN
        /\ calls' = [calls EXCEPT ![r] =
               Append(@, Call("auth", 0, got.calls, got.raises))]
        /\ IF got.raises
           THEN /\ unmatched' = [unmatched EXCEPT ![r] = files[r]]
                /\ pc' = [pc EXCEPT ![r] = "package"]
                /\ UNCHANGED service
           ELSE /\ service' = [service EXCEPT ![r] = got.value]
                /\ pc' = [pc EXCEPT ![r] = "set_progress"]
                /\ UNCHANGED unmatched
    /\ UNCHANGED << inflight, shared, form, ref_enc, idx, matched,
                    response, pubs >>

\* line 166 / 207: progress_data = {"current": 0, "total": len(files)}
SetProgress(r) ==
    /\ pc[r] = "set_progress"
    /\ progress_data' = [current |-> 0, total |-> Len(files[r])]
    /\ pc' = [pc EXCEPT ![r] = "publish_total"]
    /\ UNCHANGED << inflight, firebase, uploads, folder, uuids, form, pass,
                    response, logs >>

\* line 167 / 208: update_firebase_progress(0, len(files))
PublishTotal(r) ==
    /\ pc[r] = "publish_total"
    /\ update_firebase_progress(r, 0, Len(files[r]))
    /\ pc' = [pc EXCEPT ![r] = "publish_total_set"]
    /\ UNCHANGED << shared, form, pass, response, calls, rm_entries >>

\* line 167 / 208, the write of ref.set; enter the loop
PublishTotalSet(r) ==
    /\ pc[r] = "publish_total_set"
    /\ ref_set(r)
    /\ idx' = [idx EXCEPT ![r] = 0]
    /\ pc' = [pc EXCEPT ![r] = IF files[r] = <<>> THEN "package" ELSE "item"]
    /\ UNCHANGED << progress_data, uploads, folder, uuids, form,
                    ref_enc, service, matched, unmatched, response, logs,
                    rm_entries >>

\* classify without the found_match flag: a match is appended to both lists
classify_both(r, file) ==
    LET img_data == file.data
        loaded == load_image_any_format(img_data)
        encs == extract_face_encodings(loaded.value)
    IN  /\ calls' = [calls EXCEPT ![r] =
               @ \o << Call("load", idx[r] + 1, loaded.calls, loaded.raises),
                       Call("encode", idx[r] + 1, 1, FALSE) >>]
        /\ unmatched' = [unmatched EXCEPT ![r] = Append(@, file.name)]
        /\ IF found_match(ref_enc[r], encs)
           THEN matched' = [matched EXCEPT ![r] =
                               Append(@, <<file.name, img_data>>)]
           ELSE UNCHANGED matched

\* lines 178-189 / 217-228: load, encode and decide one candidate
classify(r, file) ==
    LET img_data == file.data
        loaded == load_image_any_format(img_data)
        encs == extract_face_encodings(loaded.value)
    IN  /\ calls' = [calls EXCEPT ![r] =
               @ \o << Call("load", idx[r] + 1, loaded.calls, loaded.raises),
                       Call("encode", idx[r] + 1, 1, FALSE) >>]
        /\ IF found_match(ref_enc[r], encs)
           THEN /\ matched' = [matched EXCEPT ![r] =
                                  Append(@, <<file.name, img_data>>)]
                /\ UNCHANGED unmatched
           ELSE /\ unmatched' = [unmatched EXCEPT ![r] =
                                    Append(@, file.name)]
                /\ UNCHANGED matched

\* drive_item without the try/except: a failed download ends the loop
drive_item_unguarded(r, file) ==
    /\ IF ~ file.fetch
       THEN /\ pc' = [pc EXCEPT ![r] = "package"]
            /\ UNCHANGED << matched, unmatched, calls >>
       ELSE /\ classify(r, file)
            /\ pc' = [pc EXCEPT ![r] = "set_current"]
    /\ UNCHANGED idx

\* drive_item whose chunk loop swallows a failed chunk and asks again
drive_item_hangs(r, file) ==
    IF ~ file.fetch
    THEN UNCHANGED << pc, idx, matched, unmatched, calls >>
    ELSE /\ classify(r, file)
         /\ pc' = [pc EXCEPT ![r] = "set_current"]
         /\ UNCHANGED idx

\* lines 170-192 of compare_faces: one iteration up to the progress update
drive_item(r, file) ==
    /\ IF ~ file.fetch
       THEN /\ unmatched' = [unmatched EXCEPT ![r] = Append(@, file.name)]
            /\ UNCHANGED << matched, calls >>
       ELSE classify(r, file)
    /\ pc' = [pc EXCEPT ![r] = "set_current"]
    /\ UNCHANGED idx

\* local_item that skips a rejected file without recording it
local_item_unrecorded(r, file) ==
    LET valid == validate_file([filename |-> file.name, size |-> file.size])
    IN  IF ~ valid[1]
        THEN /\ idx' = [idx EXCEPT ![r] = @ + 1]
             /\ pc' = [pc EXCEPT ![r] = AfterItem(r)]
             /\ UNCHANGED << matched, unmatched, calls >>
        ELSE /\ classify(r, file)
             /\ pc' = [pc EXCEPT ![r] = "set_current"]
             /\ UNCHANGED idx

\* lines 211-231 of compare_faces_local: a rejected file takes `continue`
local_item(r, file) ==
    LET valid == validate_file([filename |-> file.name, size |-> file.size])
    IN  IF ~ valid[1]
        THEN /\ unmatched' = [unmatched EXCEPT ![r] = Append(@, file.name)]
             /\ idx' = [idx EXCEPT ![r] = @ + 1]
             /\ pc' = [pc EXCEPT ![r] = AfterItem(r)]
             /\ UNCHANGED << matched, calls >>
        ELSE /\ classify(r, file)
             /\ pc' = [pc EXCEPT ![r] = "set_current"]
             /\ UNCHANGED idx

ProcessItem(r) ==
    /\ pc[r] = "item"
    /\ IF variant[r] = "drive"
       THEN drive_item(r, files[r][idx[r] + 1])
       ELSE local_item(r, files[r][idx[r] + 1])
    /\ UNCHANGED << inflight, shared, form, ref_enc, service, response, pubs >>

\* line 193 / 232: progress_data["current"] = idx + 1
SetCurrent(r) ==
    /\ pc[r] = "set_current"
    /\ progress_data' = [progress_data EXCEPT !.current = idx[r] + 1]
    /\ pc' = [pc EXCEPT ![r] = "publish"]
    /\ UNCHANGED << inflight, firebase, uploads, folder, uuids, form, pass,
                    response, logs >>

\* line 194 / 233: evaluate the arguments of the call
\* update_firebase_progress(progress_data["current"], progress_data["total"])
PublishArgs(r) ==
    /\ pc[r] = "publish"
    /\ update_firebase_progress(r, progress_data.current, progress_data.total)
    /\ pc' = [pc EXCEPT ![r] = "publish_set"]
    /\ UNCHANGED << shared, form, pass, response, calls, rm_entries >>

\* Publish with update_firebase_progress letting the store's error through:
\* it leaves the pass and the handler answers with its error page
Publish_propagates(r) ==
    /\ pc[r] = "publish_set"
    /\ args' = [args EXCEPT ![r] = None]
    /\ \E ok \in BOOLEAN :
        IF ok
        THEN /\ firebase' = args[r]
             /\ idx' = [idx EXCEPT ![r] = @ + 1]
             /\ pc' = [pc EXCEPT ![r] = AfterItem(r)]
             /\ UNCHANGED response
        ELSE /\ Respond(r, Template("An error occurred during processing."))
             /\ UNCHANGED << firebase, idx >>
    /\ UNCHANGED << progress_data, uploads, folder, uuids, form,
                    ref_enc, service, matched, unmatched, logs, rm_entries >>

\* line 194 / 233, the write of ref.set; next iteration
Publish(r) ==
    /\ pc[r] = "publish_set"
    /\ ref_set(r)
    /\ idx' = [idx EXCEPT ![r] = @ + 1]
    /\ pc' = [pc EXCEPT ![r] = AfterItem(r)]
    /\ UNCHANGED << progress_data, uploads, folder, uuids, form,
                    ref_enc, service, matched, unmatched, response, logs,
                    rm_entries >>

(***************************************************************************)
(* Lines 293-299 / 336-342: the matched images go into a ZIP that is sent. *)
(***************************************************************************)
Package(r) ==
    /\ pc[r] = "package"
    /\ Respond(r, Archive(zip_matched(<<>>, matched[r])))
    /\ UNCHANGED << inflight, shared, form, pass, logs >>

\* /progress: jsonify(progress_data)
Poll(r) ==
    /\ pc[r] = "progress"
    /\ Respond(r, [kind |-> "json", status |-> 200, error |-> "",
                   body |-> <<progress_data>>])
    /\ UNCHANGED << inflight, shared, form, pass, logs >>

(***************************************************************************)
(* Specifications.  Spec: one request handled alone, over the full set of  *)
(* inputs.  SpecConc: every thread handles a request and the threads       *)
(* interleave line by line (one after the other included), over a smaller  *)
(* set of inputs.  A request alone always finds the folder gone at line    *)
(* 251, so MakedirsIsdir is a step of the interleaved specifications only. *)
(***************************************************************************)
Steps(r) ==
    \/ IndexReset(r) \/ IndexPublish(r) \/ IndexPublishSet(r)
    \/ Rmtree(r) \/ RmtreeUnlink(r) \/ RmtreeRmdir(r) \/ Makedirs(r)
    \/ LoadRef(r) \/ Auth(r) \/ SetProgress(r)
    \/ PublishTotal(r) \/ PublishTotalSet(r)
    \/ ProcessItem(r) \/ SetCurrent(r) \/ PublishArgs(r) \/ Publish(r)
    \/ Package(r) \/ Poll(r)

Next ==
    \E r \in Threads :
        \/ StartAlone(r)
        \/ IndexForm(r, Forms(Candidates, MaxFiles, References))
        \/ IndexDispatch(r, Candidates, MaxFiles)
        \/ ApiSave(r, Bodies(References))
        \/ ApiList(r, Candidates, MaxFiles)
        \/ Steps(r)

Spec == Init /\ [][Next]_vars

\* a handler that has a line to run runs it: the server does not stop a
\* thread in the middle of a request
FairSpec == Init /\ [][Next]_vars /\ \A r \in Threads : WF_vars(Steps(r))

\* the retry wrapper on its own: one call of a wrapped function whose
\* attempts raise or return as b says, attempt k identified by the value k
RetryCall(r) ==
    /\ \A q \in Threads : pc[q] = "idle" /\ calls[q] = <<>>
    /\ \E tries \in 1 .. MaxTries, delay \in { 1, 2 }, backoff \in { 2, 3 },
          b \in [1 .. MaxTries + 1 -> BOOLEAN] :
        LET outs == [k \in 1 .. MaxTries + 1 |->
                        [raises |-> b[k], value |-> k]]
        IN calls' = [calls EXCEPT ![r] =
               << [fn |-> "retry", tries |-> tries, delay |-> delay,
                   backoff |-> backoff, outs |-> outs,
                   result |-> wrapper_retry(tries, delay, backoff, outs)] >>]
    /\ UNCHANGED << inflight, shared, pc, form, pass, response, pubs >>

NextRetry == \E r \in Threads : RetryCall(r)

SpecRetry == Init /\ [][NextRetry]_vars

NextConc ==
    \E r \in Threads :
        \/ Start(r)
        \/ IndexForm(r, Forms(ConcCandidates, ConcMaxFiles, ConcReferences))
        \/ IndexDispatch(r, ConcCandidates, ConcMaxFiles)
        \/ ApiSave(r, Bodies(References))
        \/ ApiList(r, ConcCandidates, ConcMaxFiles)
        \/ Steps(r)
        \/ MakedirsIsdir(r)

SpecConc == Init /\ [][NextConc]_vars

\* the threaded server (app.run, line 348) serves request after request: a
\* thread that has answered takes the next request with fresh locals.  The
\* module's globals, the store and the upload folder stay as they are.
Finish(r) ==
    /\ pc[r] = "done"
    /\ pc' = [pc EXCEPT ![r] = "idle"]
    /\ route' = [route EXCEPT ![r] = "none"]
    /\ filepath' = [filepath EXCEPT ![r] = None]
    /\ folder_id' = [folder_id EXCEPT ![r] = <<>>]
    /\ variant' = [variant EXCEPT ![r] = "none"]
    /\ files' = [files EXCEPT ![r] = <<>>]
    /\ ref_enc' = [ref_enc EXCEPT ![r] = <<>>]
    /\ service' = [service EXCEPT ![r] = None]
    /\ idx' = [idx EXCEPT ![r] = 0]
    /\ matched' = [matched EXCEPT ![r] = <<>>]
    /\ unmatched' = [unmatched EXCEPT ![r] = <<>>]
    /\ response' = [response EXCEPT ![r] = NoResponse]
    /\ pubs' = [pubs EXCEPT ![r] = <<>>]
    /\ calls' = [calls EXCEPT ![r] = <<>>]
    /\ UNCHANGED << shared, inflight >>

\* a request to the page: GET / or POST /
StartIndex(r) ==
    /\ Start(r)
    /\ route'[r] \in { "index_get", "index_post" }

\* SpecServe: requests to the page one after the other and side by side,
\* each POST without files and without a reference image
NextServe ==
    \E r \in Threads :
        \/ StartIndex(r)
        \/ IndexForm(r, Forms({}, 0, { ref_absent }))
        \/ IndexDispatch(r, {}, 0)
        \/ Steps(r)
        \/ MakedirsIsdir(r)
        \/ Finish(r)

SpecServe == Init /\ [][NextServe]_vars


(***************************************************************************)
(* Vocabulary of the properties.                                           *)
(***************************************************************************)
\* the thread's matching pass has returned to its caller
Returned(r) ==
    \/ pc[r] = "package"
    \/ pc[r] = "done" /\ response[r].kind = "archive"

\* the pass got past its reference check with a non-empty encoding set
HasReference(r) == ref_enc[r] # <<>>

\* get_drive_service raised out of its retry wrapper in the thread's pass
AuthFailed(r) ==
    \E k \in DOMAIN calls[r] : calls[r][k].fn = "auth" /\ calls[r][k].raises

\* the pass reached its loop: local, or drive with a service
Authenticated(r) ==
    HasReference(r) /\ (variant[r] = "local" \/ service[r] # None)

\* candidates the pass has put in one of its lists so far
Classified(r) == Len(matched[r]) + Len(unmatched[r])

\* how many of the first n entries of s satisfy Test
CountIn(s, n, Test(_)) == Cardinality({ i \in 1 .. n : Test(s[i]) })

\* the loader or the encoder was called for item i of the thread's list
Invoked(r, i) == \E k \in DOMAIN calls[r] : calls[r][k].item = i

\* the rejection rule of the local variant, as the specification words it
Rejected(c) ==
    LET n == lower(c.name) IN
    \/ ~ ( \/ endswith(n, <<".", "p", "n", "g">>)
           \/ endswith(n, <<".", "j", "p", "g">>)
           \/ endswith(n, <<".", "j", "p", "e", "g">>)
           \/ endswith(n, <<".", "h", "e", "i", "c">>) )
    \/ c.size > 10 * 1024 * 1024

\* downloading, decoding or encoding candidate c fails in variant v
Fails(c, v) ==
    \/ v = "drive" /\ ~ c.fetch
    \/ ~ c.data.decodable
    \/ c.data.encerr

\* candidate c goes through download, validation, decoding and encoding
Processed(c, v) ==
    /\ ~ Fails(c, v)
    /\ v = "local" => ~ Rejected(c)

\* some face of c is closer than 0.6 to some reference encoding
Close(c, refs) ==
    \E a \in DOMAIN c.data.faces, b \in DOMAIN refs :
        Abs(c.data.faces[a] - refs[b]) < 600

\* os.path.basename: what follows the last "/"
basename(name) ==
    LET cut == { i \in DOMAIN name : name[i] = "/" }
        last == IF cut = {} THEN 0
                ELSE CHOOSE i \in cut : \A j \in cut : j <= i
    IN SubSeq(name, last + 1, Len(name))

(***************************************************************************)
(* C1: when a pass that started with a non-empty reference encoding set    *)
(* has returned, len(matched) + len(unmatched) is the number of            *)
(* candidates, whatever happened to each of them.                          *)
(***************************************************************************)
C1_Partition ==
    \A r \in Threads :
        Returned(r) /\ HasReference(r) => Classified(r) = Len(files[r])

\* a drive pass over a failed download and a match has returned
C1_Witness ==
    \E r \in Threads :
        /\ Returned(r) /\ HasReference(r)
        /\ files[r] = << cand_nofetch, cand_near >>
        /\ Len(matched[r]) = 1 /\ Len(unmatched[r]) = 1

(***************************************************************************)
(* C2: within a pass the published `current` never decreases, and when the *)
(* pass has returned the progress record has current = total.              *)
(***************************************************************************)
C2_ProgressReachesTotal ==
    \A r \in Threads :
        /\ \A i, j \in DOMAIN pubs[r] :
               i <= j => pubs[r][i].current <= pubs[r][j].current
        /\ Returned(r) /\ HasReference(r) =>
               progress_data.current = progress_data.total

(***************************************************************************)
(* C3: the progress record always has 0 <= current <= total, and between   *)
(* a pass's enumeration and its return total is the length of its list.    *)
(***************************************************************************)
C3_ProgressBounded ==
    /\ 0 <= progress_data.current
    /\ progress_data.current <= progress_data.total
    /\ \A r \in Threads :
           pc[r] \in { "publish_total", "publish_total_set", "item",
                      "set_current", "publish", "publish_set" }
               => progress_data.total = Len(files[r])

(***************************************************************************)
(* C4: a candidate whose download, decoding or encoding fails is put in    *)
(* unmatched and never in matched, and the pass still classifies every     *)
(* candidate of its list before it returns an ordinary result.             *)
(***************************************************************************)
C4_FaultIsolation ==
    \A r \in Threads :
        Authenticated(r) =>
            /\ \A i \in 1 .. Classified(r) :
                   LET c == files[r][i]
                       Same(x) == x = c
                       Named(x) == x = c.name
                       Kept(x) == x[1] = c.name
                   IN Fails(c, variant[r])
                      /\ ~ (variant[r] = "local" /\ Rejected(c)) =>
                         /\ CountIn(unmatched[r], Len(unmatched[r]), Named)
                              = CountIn(files[r], Classified(r), Same)
                         /\ CountIn(matched[r], Len(matched[r]), Kept) = 0
            /\ Classified(r) <= Len(files[r])
            /\ Returned(r) => Classified(r) = Len(files[r])
            /\ pc[r] = "done" => response[r].kind = "archive"

\* a local pass met undecodable bytes first and still matched the next file
C4_Witness ==
    \E r \in Threads :
        /\ Returned(r) /\ Authenticated(r)
        /\ files[r] = << cand_corrupt, cand_near >>
        /\ unmatched[r] = << cand_corrupt.name >>
        /\ Len(matched[r]) = 1

(***************************************************************************)
(* C5: a candidate that was processed is in matched if and only if one of  *)
(* its faces is closer than 0.6 to one of the reference encodings.         *)
(***************************************************************************)
C5_MatchDecision ==
    \A r \in Threads :
        Authenticated(r) =>
            \A i \in 1 .. Classified(r) :
                LET c == files[r][i]
                    Same(x) == x = c
                    Kept(x) == x = << c.name, c.data >>
                IN Processed(c, variant[r]) =>
                      CountIn(matched[r], Len(matched[r]), Kept)
                        = IF Close(c, ref_enc[r])
                          THEN CountIn(files[r], Classified(r), Same)
                          ELSE 0

\* one reference face: a face at exactly 0.6 is no match, 0.599 is
C5_Witness ==
    \E r \in Threads :
        /\ Returned(r) /\ Authenticated(r)
        /\ ref_enc[r] = << 0 >>
        /\ files[r] = << cand_edge, cand_sub >>
        /\ unmatched[r] = << cand_edge.name >>
        /\ matched[r] = << << cand_sub.name, cand_sub.data >> >>

(***************************************************************************)
(* C6: a reference image without a face gives matched = [] and             *)
(* unmatched = [] with no candidate processed, and the request ends with   *)
(* an outcome of its own, not an ordinary archive.                         *)
(***************************************************************************)
C6_NoFaceIsDistinct ==
    \A r \in Threads :
        calls[r] # <<>> /\ ~ HasReference(r) =>
            /\ matched[r] = <<>> /\ unmatched[r] = <<>>
            /\ \A i \in 1 .. Len(files[r]) : ~ Invoked(r, i)
            /\ pc[r] = "done" => response[r].kind # "archive"

(***************************************************************************)
(* C7: the archive has one entry per element of matched, named by the      *)
(* candidate's bare filename without its directory components.             *)
(***************************************************************************)
C7_EntryNamesAreBare ==
    \A r \in Threads :
        pc[r] = "done" /\ response[r].kind = "archive" =>
            /\ Len(response[r].body) = Len(matched[r])
            /\ \A i \in DOMAIN matched[r] :
                   /\ response[r].body[i].name = basename(matched[r][i][1])
                   /\ response[r].body[i].data = matched[r][i][2]

(***************************************************************************)
(* C8: when a request that stored a reference image has packaged its       *)
(* result and answered, its reference image is no longer stored.           *)
(***************************************************************************)
C8_ReferenceDeleted ==
    \A r \in Threads :
        pc[r] = "done" /\ response[r].kind = "archive" /\ filepath[r] # None
            => ~ \E f \in uploads : f.path = filepath[r]

(***************************************************************************)
(* C9: in the drive variant, when get_drive_service fails on all its       *)
(* attempts the pass returns matched = [] and its whole list as unmatched, *)
(* and the request gets its ordinary answer.                               *)
(***************************************************************************)
C9_AuthFailure ==
    \A r \in Threads :
        /\ AuthFailed(r) =>
               /\ Returned(r)
               /\ matched[r] = <<>>
               /\ unmatched[r] = files[r]
        /\ \A k \in DOMAIN calls[r] :
               calls[r][k].fn = "auth" =>
                   (calls[r][k].raises <=> service[r] = None)

\* three failed attempts, two candidates listed, the answer was sent
C9_Witness ==
    \E r \in Threads :
        /\ pc[r] = "done" /\ AuthFailed(r)
        /\ \E k \in DOMAIN calls[r] :
               calls[r][k].fn = "auth" /\ calls[r][k].attempts = 3
        /\ Len(files[r]) = 2

(***************************************************************************)
(* C10: in the local variant a file is rejected exactly when its           *)
(* lower-cased name has none of the four extensions or it is larger than   *)
(* 10 MiB; a rejected file is in unmatched and neither the loader nor the  *)
(* encoder is called for it.                                               *)
(***************************************************************************)
C10_Validation ==
    \A r \in Threads :
        variant[r] = "local" /\ HasReference(r) =>
            \A i \in 1 .. Classified(r) :
                LET c == files[r][i]
                    Same(x) == x = c
                    Named(x) == x = c.name
                IN /\ Invoked(r, i) <=> ~ Rejected(c)
                   /\ Rejected(c) =>
                         CountIn(unmatched[r], Len(unmatched[r]), Named)
                           = CountIn(files[r], Classified(r), Same)

\* b.JPG of exactly 10 MiB was loaded, d.png of one byte more was not
C10_Witness ==
    \E r \in Threads :
        /\ Returned(r) /\ variant[r] = "local" /\ HasReference(r)
        /\ files[r] = << cand_edge, cand_big >>
        /\ Invoked(r, 1) /\ ~ Invoked(r, 2)
        /\ cand_big.name \in Range(unmatched[r])

(***************************************************************************)
(* C11: whichever publishes fail, no error reaches the pass and the lists  *)
(* it returns are those of the same pass with every publish succeeding,    *)
(* which depend on the candidates and the reference encodings alone.       *)
(***************************************************************************)
\* candidate c ends in matched
Matches(c, v, refs) == Processed(c, v) /\ Close(c, refs)

RECURSIVE ExpectedMatched(_, _, _)
ExpectedMatched(fs, v, refs) ==
    IF fs = <<>> THEN <<>>
    ELSE IF Matches(Head(fs), v, refs)
         THEN << << Head(fs).name, Head(fs).data >> >>
              \o ExpectedMatched(Tail(fs), v, refs)
         ELSE ExpectedMatched(Tail(fs), v, refs)

RECURSIVE ExpectedUnmatched(_, _, _)
ExpectedUnmatched(fs, v, refs) ==
    IF fs = <<>> THEN <<>>
    ELSE IF Matches(Head(fs), v, refs)
         THEN ExpectedUnmatched(Tail(fs), v, refs)
         ELSE << Head(fs).name >> \o ExpectedUnmatched(Tail(fs), v, refs)

C11_PublishIsFireAndForget ==
    \A r \in Threads :
        Authenticated(r) =>
            /\ pc[r] = "done" => response[r].kind = "archive"
            /\ Returned(r) =>
                   /\ matched[r] =
                          ExpectedMatched(files[r], variant[r], ref_enc[r])
                   /\ unmatched[r] =
                          ExpectedUnmatched(files[r], variant[r], ref_enc[r])

\* every publish of a pass over two candidates failed: the store is empty
C11_Witness ==
    \E r \in Threads :
        /\ Returned(r) /\ Authenticated(r)
        /\ Len(files[r]) = 2 /\ Len(matched[r]) = 1
        /\ Len(pubs[r]) >= 3
        /\ firebase = None

(***************************************************************************)
(* C12: a request whose drive link has no /folders/<id>, or that selects   *)
(* no candidate source, starts no matching pass (nothing is loaded, no     *)
(* progress with total > 0 is published) and gets an explicit error.       *)
(***************************************************************************)
\* the answered request named neither a drive folder nor local files
NoSource(r) ==
    /\ route[r] \in { "index_post", "api" }
    /\ pc[r] = "done"
    /\ folder_id[r] = <<>> /\ files[r] = <<>> /\ variant[r] = "none"

C12_BadSourceIsAnError ==
    \A r \in Threads :
        NoSource(r) =>
            /\ calls[r] = <<>>
            /\ \A k \in DOMAIN pubs[r] : pubs[r][k].total = 0
            /\ response[r].error # ""

(***************************************************************************)
(* C13: when an image does not decode, load_image_any_format tries again:  *)
(* it makes more than one and at most two decode attempts, then gives      *)
(* None without raising.                                                   *)
(***************************************************************************)
\* the bytes the thread's k-th logged call was given
GivenTo(r, k) ==
    IF calls[r][k].item = 0 THEN read_file(filepath[r])
    ELSE files[r][calls[r][k].item].data

C13_LoaderRetries ==
    \A r \in Threads :
        \A k \in DOMAIN calls[r] :
            /\ calls[r][k].fn = "load"
            /\ calls[r][k].item > 0
            /\ ~ GivenTo(r, k).decodable
            => /\ calls[r][k].attempts > 1
               /\ calls[r][k].attempts <= 2
               /\ ~ calls[r][k].raises

(***************************************************************************)
(* C14: the values of `current` a pass publishes are 0, 1, 2, ..., total   *)
(* in that order: between two iterations, and when the pass has returned,  *)
(* one publish was made per classified candidate and the last one carries  *)
(* the number of candidates classified so far.                             *)
(***************************************************************************)
\* the publishes of the pass: index() made one of its own before it
PassPubs(r) ==
    IF route[r] = "index_post" THEN Tail(pubs[r]) ELSE pubs[r]

C14_OnePublishPerCandidate ==
    \A r \in Threads :
        Authenticated(r) /\ pc[r] \in { "item", "package", "done" } =>
            /\ Len(PassPubs(r)) = Classified(r) + 1
            /\ \A k \in DOMAIN PassPubs(r) :
                   /\ PassPubs(r)[k].current = k - 1
                   /\ PassPubs(r)[k].total = Len(files[r])

(***************************************************************************)
(* C15: a pass that starts eventually returns and its request is answered  *)
(* with the archive, every candidate of an authenticated pass having been  *)
(* classified, whatever fails on the way.                                  *)
(***************************************************************************)
C15_PassTerminates ==
    \A r \in Threads :
        (pc[r] = "load_ref") ~>
            ( /\ pc[r] = "done"
              /\ response[r].kind = "archive"
              /\ Authenticated(r) => Classified(r) = Len(files[r]) )

\* a drive pass over a failed download and undecodable bytes was answered
C15_Witness ==
    \E r \in Threads :
        /\ pc[r] = "done" /\ response[r].kind = "archive"
        /\ Authenticated(r)
        /\ files[r] = << cand_nofetch, cand_corrupt >>
        /\ Len(unmatched[r]) = 2

(***************************************************************************)
(* C16: the retry wrapper with tries = n >= 1 calls the function at most   *)
(* n times, returns what the first attempt that does not raise returns     *)
(* without calling again, lets the n-th exception through when all n       *)
(* attempts raise, and sleeps delay, delay * backoff, ... between attempts.*)
(***************************************************************************)
RECURSIVE Pow(_, _)
Pow(b, e) == IF e = 0 THEN 1 ELSE b * Pow(b, e - 1)

RetryContract(e) ==
    LET n == e.tries
        res == e.result
        good == { j \in 1 .. n : ~ e.outs[j].raises }
        first == CHOOSE j \in good : \A i \in good : j <= i
    IN  /\ res.calls \in 1 .. n
        /\ good # {} =>
               /\ res.calls = first
               /\ ~ res.raises
               /\ res.value = e.outs[first].value
        /\ good = {} =>
               /\ res.calls = n
               /\ res.raises
               /\ res.value = e.outs[n].value
        /\ Len(res.sleeps) = res.calls - 1
        /\ \A i \in DOMAIN res.sleeps :
               res.sleeps[i] = e.delay * Pow(e.backoff, i - 1)

C16_RetryContract ==
    \A r \in Threads :
        \A k \in DOMAIN calls[r] :
            calls[r][k].fn = "retry" => RetryContract(calls[r][k])

\* tries = 3, delay = 2, backoff = 3: two failures, then the third returns
C16_Witness ==
    \E r \in Threads :
        /\ calls[r] # <<>>
        /\ calls[r][1].fn = "retry"
        /\ calls[r][1].tries = 3
        /\ calls[r][1].outs[1].raises /\ calls[r][1].outs[2].raises
        /\ ~ calls[r][1].outs[3].raises
        /\ calls[r][1].result.calls = 3
        /\ calls[r][1].result.sleeps = << 2, 6 >>

(***************************************************************************)
(* C17: whatever the other requests do, the reference image a request has  *)
(* stored is still in the upload folder until its own pass has loaded it.  *)
(***************************************************************************)
C17_ReferenceStaysReadable ==
    \A r \in Threads :
        pc[r] \in { "dispatch", "api_list", "load_ref" }
            => \E f \in uploads : f.path = filepath[r]

(***************************************************************************)
(* C18: in a pass that has its reference encodings and its service, the    *)
(* candidates visited so far are split between matched and unmatched:      *)
(* each is in exactly one list, once, and both lists follow the order of   *)
(* the enumeration.                                                        *)
(***************************************************************************)
\* candidates whose iteration has put them in a list
Visited(r) ==
    CASE pc[r] = "item" -> idx[r]
      [] pc[r] \in { "set_current", "publish", "publish_set" } -> idx[r] + 1
      [] pc[r] \in { "package", "done" } -> Len(files[r])
      [] OTHER -> 0

\* the entries of fs at the positions of A, in increasing position
RECURSIVE Pick(_, _, _)
Pick(fs, A, from) ==
    IF from > Len(fs) THEN <<>>
    ELSE IF from \in A THEN << fs[from] >> \o Pick(fs, A, from + 1)
    ELSE Pick(fs, A, from + 1)

C18_ClassifiedOnceInOrder ==
    \A r \in Threads :
        Authenticated(r) =>
            \E A \in SUBSET (1 .. Visited(r)) :
                LET kept == Pick(files[r], A, 1)
                    left == Pick(files[r], (1 .. Visited(r)) \ A, 1)
                IN /\ matched[r] =
                          [i \in DOMAIN kept |-> << kept[i].name, kept[i].data >>]
                   /\ unmatched[r] = [i \in DOMAIN left |-> left[i].name]

\* two matches, kept in the order the files were listed
C18_Witness ==
    \E r \in Threads :
        /\ Returned(r) /\ Authenticated(r)
        /\ files[r] = << cand_sub, cand_near >>
        /\ matched[r] = << << cand_sub.name, cand_sub.data >>,
                           << cand_near.name, cand_near.data >> >>
        /\ unmatched[r] = <<>>

=============================================================================
